---- MODULE Spec2Model ----
(***************************************************************************)
(* A model of price_csv (src/price_csv/__init__.py): the collections       *)
(* loaded from tabular sources, GameCompare (parse, get_ids, the two       *)
(* writers) and the pure helpers money_to_float and gamestop_to_ours.      *)
(*                                                                         *)
(* Text is a sequence of one-character strings, so that lowercasing, the   *)
(* regular-expression substitutions and Python's `in` on strings are       *)
(* computed character by character.  A record (UserDict) is a function     *)
(* from its column names to text.  A list of records holds references:     *)
(* it is a sequence of indices into the collection that owns the records.  *)
(***************************************************************************)
EXTENDS Integers, Sequences, FiniteSets, TLC

VARIABLES
    inventory,      \* InventoryCollection.data: the inventory records
    reference,      \* the other collection's data: the reference records
    other_cls,      \* the class of the other collection
    other_type,     \* item_type the other collection wrapped its rows in
    loaded,         \* which collections have been constructed
    matchvalue,     \* the category GameCompare was constructed with
    current,        \* GameCompare.current after parse (indices of inventory)
    other,          \* GameCompare.other after parse (indices of reference)
    with_ids,       \* GameCompare.with_ids (meaningful when ids_set)
    without_ids,    \* GameCompare.without_ids (meaningful when ids_set)
    ids_set,        \* get_ids has returned: both lists are set, not None
    matches,        \* GameCompare.matches: <<inventory index, reference index>>
    reg,            \* the pattern get_ids was called with
    files,          \* the two output files: header row and data rows
    pc,             \* position of the single thread of control
    err,            \* the exception that ended the run, or "none"
    price,          \* gamestop_to_ours: the argument, in whole cents
    ours,           \* gamestop_to_ours: the returned value
    money_string,   \* money_to_float: the argument (a cell of a record)
    money_ret,      \* money_to_float: the returned value
    text,           \* normalisation: the input text
    normed          \* normalisation: per pattern, the successive results

vars == <<inventory, reference, other_cls, other_type, loaded, matchvalue,
          current, other, with_ids, without_ids, ids_set, matches, reg, files,
          pc, err, price, ours, money_string, money_ret, text, normed>>

compare_vars == <<inventory, reference, other_cls, other_type, loaded,
                  matchvalue, current, other, with_ids, without_ids, ids_set,
                  matches, reg, files>>
price_vars == <<price, ours>>
money_vars == <<money_string, money_ret>>
norm_vars == <<text, normed>>

(***************************************************************************)
(* Bounds of the model.                                                    *)
(***************************************************************************)
MaxRows == 2        \* rows of a loaded source
MaxPrice == 6200    \* largest raw price, in cents
MaxDebit == 100     \* largest negative raw price, in cents
MaxMoneyLen == 3    \* characters of a money cell
MaxTextLen == 4     \* characters of a text to normalise

(***************************************************************************)
(* Text.                                                                   *)
(***************************************************************************)
RECURSIVE SeqsUpTo(_, _)
SeqsUpTo(S, n) ==
    IF n = 0 THEN {<<>>}
    ELSE LET shorter == SeqsUpTo(S, n - 1)
         IN  shorter \cup {Append(s, c) : s \in {t \in shorter : Len(t) = n - 1}, c \in S}

\* str.lower on one character, for the letters the model's texts use
LowerChar(c) ==
    CASE c = "A" -> "a" [] c = "B" -> "b" [] c = "C" -> "c" [] c = "E" -> "e"
      [] c = "G" -> "g" [] c = "N" -> "n" [] c = "S" -> "s" [] OTHER -> c

\* str.lower
Lower(s) == [i \in DOMAIN s |-> LowerChar(s[i])]

\* Python's `a in b` on strings
IsSubstring(a, b) ==
    \E start \in 0..(Len(b) - Len(a)) : SubSeq(b, start + 1, start + Len(a)) = a

\* the character class [ _$!.] both patterns start with
StripChars == {" ", "_", "$", "!", "."}

STRIP_REGEX == "STRIP_REGEX"
STRIP_DASH_REGEX == "STRIP_DASH_REGEX"
Patterns == {STRIP_REGEX, STRIP_DASH_REGEX}

\* where r'[ _$!.][^-]*$' can match in s: a stripped character with no
\* hyphen between it and the end of the string
DashMatchStarts(s) ==
    {p \in DOMAIN s : s[p] \in StripChars /\ \A q \in (p + 1)..Len(s) : s[q] # "-"}

\* a substitution that replaces only the first match (re.sub with count=1)
sub_first_only(rg, s) ==
    IF rg = STRIP_REGEX
    THEN LET hits == {p \in DOMAIN s : s[p] \in StripChars}
         IN  IF hits = {} THEN s
             ELSE LET p == CHOOSE x \in hits : \A y \in hits : x <= y
                  IN  SubSeq(s, 1, p - 1) \o SubSeq(s, p + 1, Len(s))
    ELSE LET starts == DashMatchStarts(s)
         IN  IF starts = {} THEN s
             ELSE SubSeq(s, 1, (CHOOSE p \in starts : \A q \in starts : p <= q) - 1)

\* reg.sub('', s): every non-overlapping match, leftmost first, is removed.
\* A match of STRIP_DASH_REGEX runs to the end of the string, so the
\* leftmost match is the only one.
sub(rg, s) ==
    IF rg = STRIP_REGEX
    THEN SelectSeq(s, LAMBDA c : c \notin StripChars)
    ELSE LET starts == DashMatchStarts(s)
         IN  IF starts = {} THEN s
             ELSE SubSeq(s, 1, (CHOOSE p \in starts : \A q \in starts : p <= q) - 1)

\* reg.sub('', x.name.lower())
normalize(rg, s) == sub(rg, Lower(s))

(***************************************************************************)
(* Records and collections.                                                *)
(***************************************************************************)
EXPORT_KEYS == <<"sku", "desc", "vend", "dept", "cash", "trade", "price", "tax",
                 "id", "new-price">>

InventoryCollection == "InventoryCollection"
PriceChartingCollection == "PriceChartingCollection"
GamestopCollection == "GamestopCollection"

\* the item_type each collection class passes to ItemCollection.__init__
ItemTypeOf(cls) ==
    CASE cls = PriceChartingCollection -> "PriceChartingItem"
      [] cls = InventoryCollection -> "InventoryItem"
      [] cls = GamestopCollection -> "InventoryItem"

\* the column the `name` property of an item class reads
NameKey(item_type) ==
    IF item_type = "InventoryItem" THEN "desc" ELSE "product-name"

\* dict.__setitem__
SetItem(rec, key, value) ==
    [k \in DOMAIN rec \cup {key} |-> IF k = key THEN value ELSE rec[k]]

\* dict.get(key, '')
GetOrEmpty(rec, key) == IF key \in DOMAIN rec THEN rec[key] ELSE <<>>

\* The sources the model loads.  A tabular source gives every row the
\* columns of its header; the inventory header may carry an 'id' column
\* (an exported file read back) or a column outside EXPORT_KEYS.
Descs == {<<"A", "b", " ", "c">>, <<"!">>}
Depts == {<<"N", "E", "S">>, <<"g", "b", "a">>}
InvHeaders == {{"desc", "dept"}, {"desc", "dept", "id"}, {"desc", "dept", "note"}}
Names == {<<"a", "b">>, <<"B", " ", "C">>, <<"!">>}
Categories == {<<"N", "E", "S">>, <<"n", "e", "s">>, <<"N", "6", "4">>}

\* the identifier the price guide gives a product
IdOf(name) ==
    CASE name = <<"a", "b">> -> <<"1">>
      [] name = <<"B", " ", "C">> -> <<"2">>
      [] OTHER -> <<"3">>

InvRow(header, desc, dept) ==
    [k \in header |->
        CASE k = "desc" -> desc
          [] k = "dept" -> dept
          [] k = "id" -> <<>>
          [] OTHER -> <<"x">>]

RefRow(name, console) ==
    ("product-name" :> name) @@ ("console-name" :> console) @@ ("id" :> IdOf(name))

InvSources ==
    UNION {SeqsUpTo({InvRow(h, d, p) : d \in Descs, p \in Depts}, MaxRows) : h \in InvHeaders}
\* the price guide's rows for one console, and a row of another console
RefRows ==
    {RefRow(n, <<"N", "e", "s">>) : n \in Names} \cup {RefRow(<<"a", "b">>, <<"G", "B", "A">>)}
RefSources == SeqsUpTo(RefRows, MaxRows)

NoFile == [header |-> <<>>, rows |-> <<>>]

(***************************************************************************)
(* GameCompare.                                                            *)
(***************************************************************************)
Indices(coll) == [i \in 1..Len(coll) |-> i]

\* a comparison of the category field with the target as given, not lowercased
parse_case_sensitive(cur, oth, curkey, otherkey, mv) ==
    [current |-> SelectSeq(Indices(cur), LAMBDA i : Lower(cur[i][curkey]) = mv),
     other |-> SelectSeq(Indices(oth), LAMBDA i : Lower(oth[i][otherkey]) = mv)]

\* GameCompare.parse: the two comprehensions, over references to the records
parse(cur, oth, curkey, otherkey, mv) ==
    LET lowered == Lower(mv)
    IN  [current |-> SelectSeq(Indices(cur), LAMBDA i : Lower(cur[i][curkey]) = lowered),
         other |-> SelectSeq(Indices(oth), LAMBDA i : Lower(oth[i][otherkey]) = lowered)]

\* x[key] raises KeyError for some record of the collection
MissingKey(coll, key) == \E i \in DOMAIN coll : key \notin DOMAIN coll[i]

\* the body of the inner loop of get_ids for inventory record i and
\* reference record k; st carries the inventory records, the matches and
\* the exception raised so far
ScanPair(st, i, k, refs, otype, rg) ==
    IF st.err # "none" THEN st
    ELSE IF NameKey(otype) \notin DOMAIN refs[k]
            \/ NameKey("InventoryItem") \notin DOMAIN st.items[i]
    THEN [st EXCEPT !.err = "KeyError"]
    ELSE IF IsSubstring(normalize(rg, refs[k][NameKey(otype)]),
                        normalize(rg, st.items[i][NameKey("InventoryItem")]))
    THEN IF "id" \notin DOMAIN refs[k]
         THEN [st EXCEPT !.err = "KeyError"]
         ELSE [st EXCEPT !.items[i] = SetItem(@, "id", refs[k]["id"]),
                         !.matches = Append(@, <<i, k>>)]
    ELSE st

\* the two nested loops of get_ids, pair number p onwards: the inventory
\* partition outermost, the reference partition innermost, neither left early
RECURSIVE Scan(_, _, _, _, _, _, _)
Scan(st, p, cur, oth, refs, otype, rg) ==
    IF p > Len(cur) * Len(oth) THEN st
    ELSE LET i == cur[((p - 1) \div Len(oth)) + 1]
             k == oth[((p - 1) % Len(oth)) + 1]
         IN  Scan(ScanPair(st, i, k, refs, otype, rg), p + 1, cur, oth, refs, otype, rg)

\* [x for x in self.with_ids if 'id' in x.keys()]
get_ids_with(ws, items) == SelectSeq(ws, LAMBDA n : "id" \in DOMAIN items[n])

\* without_ids computed from with_ids after with_ids was reassigned
get_ids_without_after_with(ws, items) ==
    SelectSeq(get_ids_with(ws, items), LAMBDA n : "id" \notin DOMAIN items[n])

\* [x for x in self.with_ids if 'id' not in x.keys()]
get_ids_without(ws, items) == SelectSeq(ws, LAMBDA n : "id" \notin DOMAIN items[n])

\* GameCompare.get_ids
get_ids(items, refs, cur, oth, otype, rg) ==
    LET st == Scan([items |-> items, matches |-> <<>>, err |-> "none"],
                   1, cur, oth, refs, otype, rg)
    IN  [items |-> st.items, matches |-> st.matches, err |-> st.err,
         without_ids |-> get_ids_without(cur, st.items),
         with_ids |-> get_ids_with(cur, st.items)]

ExportKeySet == {EXPORT_KEYS[i] : i \in DOMAIN EXPORT_KEYS}

\* csv.DictWriter._dict_to_list: the record's value, or '', for each fieldname
DictToList(rec) == [c \in DOMAIN EXPORT_KEYS |-> GetOrEmpty(rec, EXPORT_KEYS[c])]

\* open(path, 'w'); writeheader(); writerows(records): the rows are written one
\* by one, and a record with a key outside the fieldnames raises ValueError
\* (extrasaction is left at 'raise')
write_rows(recs) ==
    LET bad == {p \in DOMAIN recs : ~(DOMAIN recs[p] \subseteq ExportKeySet)}
        n == IF bad = {} THEN Len(recs)
             ELSE (CHOOSE p \in bad : \A q \in bad : p <= q) - 1
    IN  [file |-> [header |-> EXPORT_KEYS, rows |-> [p \in 1..n |-> DictToList(recs[p])]],
         err |-> IF bad = {} THEN "none" ELSE "ValueError"]

RecordsOf(ixs) == [p \in DOMAIN ixs |-> inventory[ixs[p]]]

(***************************************************************************)
(* The pure helpers.                                                       *)
(***************************************************************************)
NoneValue == [kind |-> "None", cents |-> 0]
Str(c) == [kind |-> "str", cents |-> c]
Number(c) == [kind |-> "float", cents |-> c]

\* round(price * 0.9), price in cents: Python rounds a half to the even integer
RoundNineTenths(c) ==
    LET q == (9 * c) \div 1000
        r == (9 * c) % 1000
    IN  IF r > 500 \/ (r = 500 /\ q % 2 = 1) THEN q + 1 ELSE q

\* the value `ours` holds after the if statement numbered n, prices in cents
TierStep(n, c, prev) ==
    CASE n = 1 -> IF c <= 799 THEN Number(c) ELSE prev
      [] n = 2 -> IF 799 < c /\ c <= 899 THEN Str(799) ELSE prev
      [] n = 3 -> IF 900 < c /\ c <= 999 THEN Str(899) ELSE prev
      [] n = 4 -> IF 1000 < c /\ c <= 1399 THEN Str(1099) ELSE prev
      [] n = 5 -> IF 1400 < c /\ c <= 1499 THEN Str(1199) ELSE prev
      [] n = 6 -> IF 1500 < c /\ c <= 1799 THEN Str(1499) ELSE prev
      [] n = 7 -> IF 1800 < c /\ c <= 1999 THEN Str(1599) ELSE prev
      [] n = 8 -> IF 2000 < c /\ c <= 2499 THEN Str(2199) ELSE prev
      [] n = 9 -> IF 2500 < c /\ c <= 2799 THEN Str(2399) ELSE prev
      [] n = 10 -> IF 2800 < c /\ c <= 3198 THEN Str(2599) ELSE prev
      [] n = 11 -> IF 3199 < c /\ c <= 3499 THEN Str(3199) ELSE prev
      [] n = 12 -> IF 3500 < c /\ c <= 3699 THEN Str(3399) ELSE prev
      [] n = 13 -> IF 3700 < c /\ c <= 3999 THEN Str(3599) ELSE prev
      [] n = 14 -> IF 4000 < c /\ c <= 4798 THEN Str(3799) ELSE prev
      [] n = 15 -> IF 4799 < c /\ c <= 5299 THEN Str(4799) ELSE prev
      [] OTHER -> IF 5299 < c THEN Str(RoundNineTenths(c) * 100 - 1) ELSE prev

RECURSIVE TierFrom(_, _, _)
TierFrom(n, c, prev) ==
    IF n > 16 THEN prev ELSE TierFrom(n + 1, c, TierStep(n, c, prev))

\* gamestop_to_ours: ours = None, then the sixteen if statements in turn
gamestop_to_ours(c) == TierFrom(1, c, NoneValue)

NoneCell == [is_none |-> TRUE, chars |-> <<>>]
Cell(s) == [is_none |-> FALSE, chars |-> s]

Digits == {"0", "1", "2", "3", "4", "5", "6", "7", "8", "9"}

\* float(s) accepts s: digits with at most one point and at least one digit
\* (the only numeric forms the characters of the model can spell)
IsFloatLiteral(s) ==
    /\ \A i \in DOMAIN s : s[i] \in Digits \cup {"."}
    /\ Cardinality({i \in DOMAIN s : s[i] = "."}) <= 1
    /\ \E i \in DOMAIN s : s[i] \in Digits

DigitValue(d) ==
    CASE d = "0" -> 0 [] d = "1" -> 1 [] d = "2" -> 2 [] d = "3" -> 3 [] d = "4" -> 4
      [] d = "5" -> 5 [] d = "6" -> 6 [] d = "7" -> 7 [] d = "8" -> 8 [] OTHER -> 9

RECURSIVE DigitsValue(_)
DigitsValue(s) ==
    IF s = <<>> THEN 0 ELSE 10 * DigitsValue(SubSeq(s, 1, Len(s) - 1)) + DigitValue(s[Len(s)])

RECURSIVE Reduce(_)
Reduce(v) ==
    IF v.scale > 0 /\ v.num % 10 = 0
    THEN Reduce([num |-> v.num \div 10, scale |-> v.scale - 1])
    ELSE v

\* the number float(s) returns, as num / 10^scale in lowest terms
FloatOf(s) ==
    LET point == {i \in DOMAIN s : s[i] = "."}
        scale == IF point = {} THEN 0 ELSE Len(s) - (CHOOSE i \in point : TRUE)
    IN  Reduce([num |-> DigitsValue(SelectSeq(s, LAMBDA c : c # ".")), scale |-> scale])

\* re.sub('[$ ]', '', money_string)
StripMoney(s) == SelectSeq(s, LAMBDA c : c \notin {"$", " "})

\* money_to_float: re.sub raises TypeError for None, which the except clause
\* (ValueError only) does not catch
money_to_float(cell) ==
    IF cell.is_none THEN [raised |-> "TypeError", value |-> NoneCell]
    ELSE IF IsFloatLiteral(StripMoney(cell.chars))
    THEN [raised |-> "none", value |-> [is_none |-> FALSE, float |-> FloatOf(StripMoney(cell.chars))]]
    ELSE [raised |-> "none", value |-> NoneCell]

(***************************************************************************)
(* The matching run: two collections are loaded, a GameCompare is          *)
(* constructed over them (which parses), get_ids is called and the two     *)
(* groups are written.  An exception ends the run.                         *)
(***************************************************************************)
MoneyChars == {"$", " ", "1", "5", ".", "N"}
TextChars == {"a", "A", " ", "-", "."}

IdleHelpers ==
    /\ price = 0
    /\ ours = NoneValue
    /\ money_string = NoneCell
    /\ money_ret = [raised |-> "none", value |-> NoneCell]
    /\ text = <<>>
    /\ normed = [rg \in Patterns |-> <<>>]

IdleCompare ==
    /\ inventory = <<>>
    /\ reference = <<>>
    /\ other_cls = PriceChartingCollection
    /\ other_type = ItemTypeOf(PriceChartingCollection)
    /\ loaded = {}
    /\ matchvalue = <<>>
    /\ current = <<>>
    /\ other = <<>>
    /\ with_ids = <<>>
    /\ without_ids = <<>>
    /\ ids_set = FALSE
    /\ matches = <<>>
    /\ reg = STRIP_REGEX
    /\ files = [with_ids |-> NoFile, without_ids |-> NoFile]

Init ==
    /\ IdleCompare
    /\ IdleHelpers
    /\ pc = "start"
    /\ err = "none"

\* InventoryCollection(...): ItemCollection.__init__ wraps every row of the source
LoadInventory ==
    /\ pc = "start"
    /\ InventoryCollection \notin loaded
    /\ \E rows \in InvSources : inventory' = rows
    /\ loaded' = loaded \cup {InventoryCollection}
    /\ UNCHANGED <<reference, other_cls, other_type, matchvalue, current, other,
                   with_ids, without_ids, ids_set, matches, reg, files, pc, err>>
    /\ UNCHANGED <<price_vars, money_vars, norm_vars>>

\* PriceChartingCollection(...) or GamestopCollection(...)
LoadReference ==
    /\ pc = "start"
    /\ loaded \cap {PriceChartingCollection, GamestopCollection} = {}
    /\ \E cls \in {PriceChartingCollection, GamestopCollection}, rows \in RefSources :
          /\ reference' = rows
          /\ other_cls' = cls
          /\ other_type' = ItemTypeOf(cls)
          /\ loaded' = loaded \cup {cls}
    /\ UNCHANGED <<inventory, matchvalue, current, other, with_ids, without_ids,
                   ids_set, matches, reg, files, pc, err>>
    /\ UNCHANGED <<price_vars, money_vars, norm_vars>>

\* GameCompare.__init__, which calls parse
Construct ==
    /\ pc = "start"
    /\ InventoryCollection \in loaded
    /\ loaded \cap {PriceChartingCollection, GamestopCollection} # {}
    /\ \E mv \in Categories :
          /\ matchvalue' = mv
          /\ IF MissingKey(inventory, "dept") \/ MissingKey(reference, "console-name")
             THEN /\ pc' = "error"
                  /\ err' = "KeyError"
                  /\ UNCHANGED <<current, other>>
             ELSE LET r == parse(inventory, reference, "dept", "console-name", mv)
                  IN  /\ current' = r.current
                      /\ other' = r.other
                      /\ pc' = "parsed"
                      /\ err' = "none"
    /\ UNCHANGED <<inventory, reference, other_cls, other_type, loaded, with_ids,
                   without_ids, ids_set, matches, reg, files>>
    /\ UNCHANGED <<price_vars, money_vars, norm_vars>>

\* GameCompare.get_ids(reg)
GetIds ==
    /\ pc = "parsed"
    /\ \E rg \in Patterns :
          LET r == get_ids(inventory, reference, current, other, other_type, rg)
          IN  /\ reg' = rg
              /\ inventory' = r.items
              /\ matches' = matches \o r.matches
              /\ IF r.err = "none"
                 THEN /\ with_ids' = r.with_ids
                      /\ without_ids' = r.without_ids
                      /\ ids_set' = TRUE
                      /\ pc' = "matched"
                      /\ err' = "none"
                 ELSE /\ with_ids' = current
                      /\ UNCHANGED <<without_ids, ids_set>>
                      /\ pc' = "error"
                      /\ err' = r.err
    /\ UNCHANGED <<reference, other_cls, other_type, loaded, matchvalue, current,
                   other, files>>
    /\ UNCHANGED <<price_vars, money_vars, norm_vars>>

\* the file is truncated and the header written; writerows(None) raises
\* TypeError when get_ids has not run
WriteFile(which, ixs) ==
    /\ pc \in {"parsed", "matched"}
    /\ IF ids_set
       THEN LET w == write_rows(RecordsOf(ixs))
            IN  /\ files' = [files EXCEPT ![which] = w.file]
                /\ err' = w.err
                /\ pc' = IF w.err = "none" THEN pc ELSE "error"
       ELSE /\ files' = [files EXCEPT ![which] = [header |-> EXPORT_KEYS, rows |-> <<>>]]
            /\ err' = "TypeError"
            /\ pc' = "error"
    /\ UNCHANGED <<inventory, reference, other_cls, other_type, loaded, matchvalue,
                   current, other, with_ids, without_ids, ids_set, matches, reg>>
    /\ UNCHANGED <<price_vars, money_vars, norm_vars>>

\* GameCompare.write_with_ids
WriteWithIds == WriteFile("with_ids", with_ids)

\* GameCompare.write_without_ids
WriteWithoutIds == WriteFile("without_ids", without_ids)

Next ==
    \/ LoadInventory
    \/ LoadReference
    \/ Construct
    \/ GetIds
    \/ WriteWithIds
    \/ WriteWithoutIds

Spec == Init /\ [][Next]_vars

\* the run up to and including get_ids, without the writers
NextMatch ==
    \/ LoadInventory
    \/ LoadReference
    \/ Construct
    \/ GetIds

SpecMatch == Init /\ [][NextMatch]_vars

(***************************************************************************)
(* gamestop_to_ours applied to every raw price of the range.               *)
(***************************************************************************)
InitPrice ==
    /\ IdleCompare
    /\ price \in (0 - MaxDebit)..MaxPrice
    /\ ours = NoneValue
    /\ money_string = NoneCell
    /\ money_ret = [raised |-> "none", value |-> NoneCell]
    /\ text = <<>>
    /\ normed = [rg \in Patterns |-> <<>>]
    /\ pc = "call"
    /\ err = "none"

GamestopToOurs ==
    /\ pc = "call"
    /\ ours' = gamestop_to_ours(price)
    /\ pc' = "done"
    /\ UNCHANGED <<price, err, compare_vars, money_vars, norm_vars>>

NextPrice == GamestopToOurs

SpecPrice == InitPrice /\ [][NextPrice]_vars

(***************************************************************************)
(* money_to_float applied to every cell a price accessor can hand it:      *)
(* GamestopItem.price, GamestopItem.trade_price and the PriceChartingItem  *)
(* accessors pass self.data[key] on unchanged.                             *)
(***************************************************************************)
InitMoney ==
    /\ IdleCompare
    /\ price = 0
    /\ ours = NoneValue
    /\ money_string \in {NoneCell} \cup {Cell(s) : s \in SeqsUpTo(MoneyChars, MaxMoneyLen)}
    /\ money_ret = [raised |-> "none", value |-> NoneCell]
    /\ text = <<>>
    /\ normed = [rg \in Patterns |-> <<>>]
    /\ pc = "call"
    /\ err = "none"

MoneyToFloat ==
    /\ pc = "call"
    /\ money_ret' = money_to_float(money_string)
    /\ err' = money_to_float(money_string).raised
    /\ pc' = IF money_to_float(money_string).raised = "none" THEN "done" ELSE "error"
    /\ UNCHANGED <<money_string, compare_vars, price_vars, norm_vars>>

NextMoney == MoneyToFloat

SpecMoney == InitMoney /\ [][NextMoney]_vars

(***************************************************************************)
(* A text normalised, and the result normalised again, with each pattern.  *)
(***************************************************************************)
InitNorm ==
    /\ IdleCompare
    /\ price = 0
    /\ ours = NoneValue
    /\ money_string = NoneCell
    /\ money_ret = [raised |-> "none", value |-> NoneCell]
    /\ text \in SeqsUpTo(TextChars, MaxTextLen)
    /\ normed = [rg \in Patterns |-> <<>>]
    /\ pc = "call"
    /\ err = "none"

Normalize ==
    /\ pc = "call"
    /\ \E rg \in Patterns :
          /\ Len(normed[rg]) < 2
          /\ normed' = [normed EXCEPT ![rg] =
                Append(@, normalize(rg, IF @ = <<>> THEN text ELSE @[Len(@)]))]
    /\ UNCHANGED <<text, pc, err, compare_vars, price_vars, money_vars>>

NextNorm == Normalize

SpecNorm == InitNorm /\ [][NextNorm]_vars

(***************************************************************************)
(* Properties.                                                             *)
(***************************************************************************)
Range(seq) == {seq[p] : p \in DOMAIN seq}

\* seq lists members of base, each once, in the order base lists them
KeepsOrderOf(seq, base) ==
    /\ Range(seq) \subseteq Range(base)
    /\ \A a, b \in DOMAIN seq :
          a < b => \E x, y \in DOMAIN base : x < y /\ base[x] = seq[a] /\ base[y] = seq[b]

EqualIgnoringCase(a, b) == Lower(a) = Lower(b)

\* the reference records of the partition, by position, whose normalised
\* name is contained in the normalised description of inventory record i
MatchingPositions(i) ==
    {q \in DOMAIN other :
        IsSubstring(normalize(reg, reference[other[q]]["product-name"]),
                    normalize(reg, inventory[i]["desc"]))}

\* C1: after get_ids, an inventory record that two or more reference records
\* of the partition match carries the id of the first of them in partition
\* order.  It is stated for the partitions in which every name normalises to
\* a non-empty text, so that what counts as a match is not in question.
C1_FirstMatchWins ==
    (pc = "matched"
        /\ \A q \in DOMAIN other :
              normalize(reg, reference[other[q]]["product-name"]) # <<>>) =>
        \A p \in DOMAIN current :
            LET hits == MatchingPositions(current[p])
            IN  Cardinality(hits) >= 2 =>
                    inventory[current[p]]["id"] =
                        reference[other[CHOOSE q \in hits : \A r \in hits : q <= r]]["id"]

\* C2: after get_ids, with_ids and without_ids share no record, every record
\* of the inventory partition is in one of them, none is listed twice, and
\* each group keeps the order of the inventory partition.
C2_SplitIsPartition ==
    pc = "matched" =>
        /\ Range(with_ids) \cap Range(without_ids) = {}
        /\ Range(with_ids) \cup Range(without_ids) = Range(current)
        /\ Len(with_ids) + Len(without_ids) = Len(current)
        /\ KeepsOrderOf(with_ids, current)
        /\ KeepsOrderOf(without_ids, current)

\* C2 witness: get_ids has returned with records in both groups, one of
\* two records of the partition having gained its id from a match.
C2_Witness ==
    /\ pc = "matched"
    /\ Len(current) >= 2
    /\ with_ids # <<>>
    /\ without_ids # <<>>
    /\ matches # <<>>

\* C3: after get_ids, no recorded match pairs a reference record whose name
\* normalises to the empty string, or an inventory record whose description
\* normalises to the empty string.
C3_EmptyNeverMatches ==
    pc = "matched" =>
        \A m \in DOMAIN matches :
            /\ normalize(reg, reference[matches[m][2]]["product-name"]) # <<>>
            /\ normalize(reg, inventory[matches[m][1]]["desc"]) # <<>>

\* C4: after get_ids with an empty reference partition, with_ids is empty
\* and without_ids is the whole inventory partition in its order.
C4_EmptyReferenceAllWithout ==
    (pc = "matched" /\ other = <<>>) =>
        /\ with_ids = <<>>
        /\ without_ids = current

\* C5: gamestop_to_ours returns a string for every raw price, and for a raw
\* price above 52.99 the string of round(raw * 0.9) - 0.01.
C5_ReturnsPriceString ==
    pc = "done" =>
        /\ ours.kind = "str"
        /\ price > 5299 => ours.cents = RoundNineTenths(price) * 100 - 1

\* C6: money_to_float raises for no cell: it returns a number or None.
C6_NeverRaises ==
    pc # "call" => (err = "none" /\ money_ret.raised = "none")

\* C7: a writer raises for no record, and the file it leaves holds one row of
\* the ten EXPORT_KEYS cells for each record of its group.
C7_WriteNeverRaises ==
    /\ err # "ValueError"
    /\ (ids_set /\ files.with_ids.header # <<>>) =>
          files.with_ids.rows = [p \in DOMAIN with_ids |-> DictToList(inventory[with_ids[p]])]
    /\ (ids_set /\ files.without_ids.header # <<>>) =>
          files.without_ids.rows =
              [p \in DOMAIN without_ids |-> DictToList(inventory[without_ids[p]])]

\* C8: after parse, each partition holds exactly the records of its
\* collection whose category field equals the target ignoring case, in the
\* collection's order; a target that differs only in case gives the same
\* two partitions; and no error is raised, also when nothing is kept.
C8_ParseFilters ==
    pc \in {"parsed", "matched"} =>
        /\ \A i \in DOMAIN inventory :
              i \in Range(current) <=> EqualIgnoringCase(inventory[i]["dept"], matchvalue)
        /\ \A k \in DOMAIN reference :
              k \in Range(other) <=> EqualIgnoringCase(reference[k]["console-name"], matchvalue)
        /\ KeepsOrderOf(current, Indices(inventory))
        /\ KeepsOrderOf(other, Indices(reference))
        /\ \A mv \in Categories :
              EqualIgnoringCase(mv, matchvalue) =>
                  parse(inventory, reference, "dept", "console-name", mv)
                      = [current |-> current, other |-> other]
        /\ err = "none"

\* C8 witness: a target given in upper case has kept some records and
\* dropped others on both sides, the kept ones spelt in another case.
C8_Witness ==
    /\ pc = "parsed"
    /\ matchvalue = <<"N", "E", "S">>
    /\ other # <<>>
    /\ Len(other) < Len(reference)
    /\ current # <<>>
    /\ Len(current) < Len(inventory)
    /\ \A q \in DOMAIN other : reference[other[q]]["console-name"] # matchvalue

\* C9: with either pattern, normalising a normalised text changes nothing.
C9_NormalizeIdempotent ==
    \A rg \in Patterns : Len(normed[rg]) = 2 => normed[rg][2] = normed[rg][1]

\* C9 witness: a text with a hyphen and upper case has been normalised
\* twice with each pattern, and each pattern removed something from it.
C9_Witness ==
    /\ \A rg \in Patterns : Len(normed[rg]) = 2 /\ Len(normed[rg][1]) < Len(text)
    /\ "-" \in Range(text)
    /\ Lower(text) # text
    /\ normed[STRIP_REGEX][1] # normed[STRIP_DASH_REGEX][1]

\* C10: the other collection wraps its rows in the item class of its own
\* kind, and get_ids over a competitor collection does not fail on a row
\* that has no 'desc' column.
C10_OwnItemKind ==
    /\ other_cls = GamestopCollection => other_type = "GamestopItem"
    /\ other_cls = PriceChartingCollection => other_type = "PriceChartingItem"
    /\ ~(other_cls = GamestopCollection /\ pc = "error" /\ err = "KeyError")

====
